---- MODULE Spec2Model ----
(***************************************************************************)
(* Model of bottery/platform/telegram.py: the Telegram engine's mode       *)
(* configuration, its polling loop, its webhook handler and the dispatch   *)
(* pipeline (build_message -> discover_view -> get_response ->             *)
(* send_message).                                                          *)
(*                                                                         *)
(* Python values are modelled as follows.  A dict is a function whose      *)
(* DOMAIN is its set of keys.  An optional value (None or a value) is a    *)
(* sequence of length at most one: None is <<>>, the value v is <<v>>.     *)
(* Every coroutine is a record with a pc field naming the await it is      *)
(* suspended at; the event loop runs one step of one coroutine at a        *)
(* time.  Where a string is built or converted it is a sequence of         *)
(* one-character strings.                                                  *)
(***************************************************************************)
EXTENDS Integers, Sequences, FiniteSets, TLC

VARIABLES mode, HOSTNAME, cfg, tasks, started, routes, calls,
          queue, nextId, iterations, handlers, requests,
          api, translation

vars == <<mode, HOSTNAME, cfg, tasks, started, routes, calls,
          queue, nextId, iterations, handlers, requests,
          api, translation>>

\* ---------------------------------------------------------------- bounds
\* largest update identifier the remote assigns in one run
MaxUpdateId == 1
\* number of get_updates calls issued in one run
MaxPolls == 3
\* number of webhook requests received in one run
MaxRequests == 2
\* number of times the configuration step is run
MaxConfigures == 2
\* number of operations requested from the API proxy in one run
MaxInvocations == 2

\* ---------------------------------------------------------- Python values
None == <<>>

Some(v) == <<v>>

EmptyDict == [k \in {} |-> 0]

\* dict.get(key): None when the key is absent
DictGet(d, key) == IF key \in DOMAIN d THEN Some(d[key]) ELSE None

\* truth value of an optional integer: None and 0 are both falsy
TruthyInt(o) == o # None /\ o[1] # 0

\* truth value of an optional dict: None and {} are both falsy
TruthyDict(o) == o # None /\ DOMAIN o[1] # {}

\* truth value of an optional string: None and '' are both falsy
TruthyStr(o) == o # None /\ o[1] # ""

Last(s) == s[Len(s)]

\* ------------------------------------------------------------------ strings
LowerLetters ==
  <<"a", "b", "c", "d", "e", "f", "g", "h", "i", "j", "k", "l", "m",
    "n", "o", "p", "q", "r", "s", "t", "u", "v", "w", "x", "y", "z">>

UpperLetters ==
  <<"A", "B", "C", "D", "E", "F", "G", "H", "I", "J", "K", "L", "M",
    "N", "O", "P", "Q", "R", "S", "T", "U", "V", "W", "X", "Y", "Z">>

IsLower(c) == \E i \in DOMAIN LowerLetters : LowerLetters[i] = c

IsUpper(c) == \E i \in DOMAIN UpperLetters : UpperLetters[i] = c

IsCased(c) == IsLower(c) \/ IsUpper(c)

lower_char(c) ==
  IF IsUpper(c)
    THEN LowerLetters[CHOOSE i \in DOMAIN UpperLetters : UpperLetters[i] = c]
    ELSE c

upper_char(c) ==
  IF IsLower(c)
    THEN UpperLetters[CHOOSE i \in DOMAIN LowerLetters : LowerLetters[i] = c]
    ELSE c

\* str.lower
lower(str) == [i \in 1..Len(str) |-> lower_char(str[i])]

\* str.title: a cased character is upper-cased when no cased character
\* precedes it, and lower-cased otherwise
title(str) ==
  [i \in 1..Len(str) |->
     IF i > 1 /\ IsCased(str[i - 1]) THEN lower_char(str[i])
     ELSE upper_char(str[i])]

RECURSIVE split(_, _)
\* str.split(sep), sep one character
split(str, sep) ==
  IF \A i \in DOMAIN str : str[i] # sep THEN <<str>>
  ELSE LET i == CHOOSE j \in DOMAIN str :
                  str[j] = sep /\ \A h \in 1..(j - 1) : str[h] # sep
       IN <<SubSeq(str, 1, i - 1)>> \o split(SubSeq(str, i + 1, Len(str)), sep)

RECURSIVE join(_)
\* ''.join(words)
join(words) == IF words = <<>> THEN <<>> ELSE Head(words) \o join(Tail(words))

\* a conversion that title-cases every word, the first included
pascal_case(string) ==
  LET words == split(string, "_") IN
  join([i \in 1..Len(words) |-> title(words[i])])

mixed_case(string) ==
  LET words == split(string, "_") IN
  lower(words[1]) \o join([i \in 1..(Len(words) - 1) |-> title(words[i + 1])])

\* ------------------------------------------------------------ TelegramAPI
\* the attribute names requested from the proxy, spelled out in characters
AttrChars ==
  [delete_webhook |-> <<"d", "e", "l", "e", "t", "e", "_", "w", "e", "b", "h", "o", "o", "k">>,
   send_message |-> <<"s", "e", "n", "d", "_", "m", "e", "s", "s", "a", "g", "e">>,
   set_webhook |-> <<"s", "e", "t", "_", "w", "e", "b", "h", "o", "o", "k">>,
   get_updates |-> <<"g", "e", "t", "_", "u", "p", "d", "a", "t", "e", "s">>,
   get_me |-> <<"g", "e", "t", "_", "m", "e">>,
   sendMessage |-> <<"s", "e", "n", "d", "M", "e", "s", "s", "a", "g", "e">>,
   close |-> <<"c", "l", "o", "s", "e">>]

api_url ==
  <<"h", "t", "t", "p", "s", ":", "/", "/", "a", "p", "i", ".", "t",
    "e", "l", "e", "g", "r", "a", "m", ".", "o", "r", "g">>

Tokens == {<<"1", "2", ":", "a", "B">>, <<"7", ":", "x", "_", "Y">>}

\* the keyword arguments an operation is invoked with
Kwargs == {EmptyDict, [chat_id |-> 42, text |-> "pong"], [offset |-> 3]}

methods == {"delete_webhook", "send_message", "set_webhook", "get_updates"}

make_url(token, method_name) ==
  api_url \o <<"/", "b", "o", "t">> \o token \o <<"/">> \o mixed_case(method_name)

\* a proxy that builds a call for any attribute name
TelegramAPI_getattr_any(token, attr) ==
  [kind |-> "callable", url |-> make_url(token, AttrChars[attr])]

\* __getattr__: AttributeError for a name outside `methods`, otherwise the
\* callable that posts its keyword arguments to the operation's URL
TelegramAPI_getattr(token, attr) ==
  IF attr \notin methods THEN [kind |-> "AttributeError"]
  ELSE [kind |-> "callable", url |-> make_url(token, AttrChars[attr])]

\* the proxy and its session: the token, the POSTs the session has made,
\* and the outcome of each operation requested from the proxy
TelegramAPI(token) == [token |-> token, posts |-> <<>>, log |-> <<>>]

\* one operation is requested from the proxy and, when the proxy yields a
\* callable, invoked with kwargs: session.post(url, json=kwargs)
ApiInvoke ==
  /\ Len(api.log) < MaxInvocations
  /\ \E attr \in DOMAIN AttrChars : \E kwargs \in Kwargs :
       LET f == TelegramAPI_getattr(api.token, attr) IN
       IF f.kind = "AttributeError"
         THEN api' = [api EXCEPT !.log = Append(@, [attr |-> attr,
                         kwargs |-> kwargs, outcome |-> "AttributeError",
                         post |-> 0])]
         ELSE api' = [api EXCEPT
                        !.posts = Append(@, [url |-> f.url, json |-> kwargs]),
                        !.log = Append(@, [attr |-> attr, kwargs |-> kwargs,
                                           outcome |-> "posted",
                                           post |-> Len(api.posts) + 1])]
  /\ UNCHANGED <<translation, mode, HOSTNAME, cfg, tasks, started, routes,
                 calls, queue, nextId, iterations, handlers, requests>>

\* one outbound POST: the operation, its JSON body and the handler task
\* that issued it (0 when it is issued by configure or by the polling loop)
ApiCall(op, json, by) == [op |-> op, json |-> json, by |-> by]

\* ------------------------------------------------------------- the inputs
\* values of the engine's `mode` option; None: the option is not given
ModeOptions == {None, Some("polling"), Some("webhook"), Some("socket")}

\* values of settings.HOSTNAME; "Missing": settings has no such attribute
Missing == [attr |-> "missing"]

Hostnames == {Missing, [value |-> None], [value |-> Some("")],
              [value |-> Some("bot.example.org")]}

\* a sender with the required fields only, and one with every field
SenderA == [id |-> 42, first_name |-> "A"]

SenderB == [id |-> 43, first_name |-> "B", last_name |-> "L",
            username |-> "b", language_code |-> "en"]

\* the texts for which the resolver finds a view
Patterns == {"ping"}

\* the messages an update with identifier i may carry: one no view
\* matches, one a view matches, and one without the `text` key
Messages(i) ==
  {[message_id |-> 100 + i, text |-> "hi", date |-> 1000 + i,
    from |-> SenderA],
   [message_id |-> 100 + i, text |-> "ping", date |-> 1000 + i,
    from |-> SenderB],
   [message_id |-> 100 + i, date |-> 1000 + i, from |-> SenderA]}

\* the raw updates with identifier i: with a "message" key, or of another
\* kind (an edited message)
Updates(i) ==
  {[update_id |-> i, message |-> m] : m \in Messages(i)}
  \cup {[update_id |-> i,
         edited_message |-> [message_id |-> 100 + i, date |-> 1000 + i]]}

\* ------------------------------------------------------------ translation
TelegramUser(sender) ==
  [id |-> sender["id"],
   first_name |-> sender["first_name"],
   last_name |-> DictGet(sender, "last_name"),
   username |-> DictGet(sender, "username"),
   language |-> DictGet(sender, "language_code")]

platform == "telegram"

build_message(data) ==
  LET message_data == DictGet(data, "message") IN
  IF ~TruthyDict(message_data) THEN [kind |-> "None"]
  ELSE LET m == message_data[1] IN
    IF \/ {"message_id", "text", "from", "date"} \ DOMAIN m # {}
       \/ {"id", "first_name"} \ DOMAIN m["from"] # {}
    THEN [kind |-> "KeyError"]
    ELSE [kind |-> "Message",
          id |-> m["message_id"],
          platform |-> platform,
          text |-> m["text"],
          user |-> TelegramUser(m["from"]),
          timestamp |-> m["date"],
          raw |-> data]

\* ---------------------------------------------------- external collaborators
\* the resolver: a view for a message whose text matches a pattern
discover_view(message) ==
  IF message.text \in Patterns THEN Some("view") ELSE None

\* the response text the view produces
get_response(view, message) == "pong"

\* ---------------------------------------------------------- message_handler
\* message_handler up to its first await: where the coroutine stands after
\* its first step
message_handler(data) ==
  LET message == build_message(data) IN
  IF message.kind = "KeyError" THEN [pc |-> "raised", err |-> "KeyError"]
  ELSE IF message.kind = "None"
    THEN [pc |-> "raised", err |-> "AttributeError"]
  ELSE IF discover_view(message) = None THEN [pc |-> "returned", err |-> "none"]
  ELSE [pc |-> "get_response", err |-> "none"]

\* a send_message addressed to the message's id instead of the user's id
send_message_to_message(data, k) ==
  LET message == build_message(data)
      view == discover_view(message)[1] IN
  ApiCall("send_message",
          [chat_id |-> message.id,
           text |-> get_response(view, message),
           parser_mode |-> "markdown"], k)

\* the send_message call of handler task k for the message of `data`
send_message(data, k) ==
  LET message == build_message(data)
      view == discover_view(message)[1] IN
  ApiCall("send_message",
          [chat_id |-> message.user.id,
           text |-> get_response(view, message),
           parser_mode |-> "markdown"], k)

\* a new handler task: the coroutine object wrapped by asyncio.gather
HandlerTask(owner, n, data) ==
  [owner |-> owner, n |-> n, data |-> data, pc |-> "pending", err |-> "none"]

Finished(h) == h.pc \in {"returned", "raised"}

\* ---------------------------------------------------------------- __init__
TelegramEngine_init(option) == IF option = None THEN "polling" ELSE option[1]

Init ==
  /\ \E o \in ModeOptions : mode = TelegramEngine_init(o)
  /\ HOSTNAME \in Hostnames
  /\ cfg = [pc |-> "init", err |-> "none", logged |-> FALSE]
  /\ tasks = <<>>
  /\ started = 0
  /\ routes = <<>>
  /\ calls = <<>>
  /\ queue = <<>>
  /\ nextId \in {0, 1}
  /\ iterations = <<>>
  /\ handlers = <<>>
  /\ requests = <<>>
  /\ api = TelegramAPI(CHOOSE t \in Tokens : TRUE)
  /\ translation = [pc |-> "idle"]

\* ----------------------------------------------------------------- configure
\* a lookup that falls back to the polling routine for an unknown mode
getattr_configure_default(m) ==
  IF m = "webhook" THEN Some("configure_webhook")
  ELSE Some("configure_polling")

\* getattr(self, 'configure_<mode>', None)
getattr_configure(m) ==
  IF m = "polling" THEN Some("configure_polling")
  ELSE IF m = "webhook" THEN Some("configure_webhook")
  ELSE None

\* a configure_polling that goes on without calling delete_webhook
configure_polling_no_delete ==
  [pc |-> "delete_webhook", err |-> "none", out |-> <<>>]

\* configure_polling up to its first await: the delete_webhook call
configure_polling ==
  [pc |-> "delete_webhook", err |-> "none",
   out |-> <<ApiCall("delete_webhook", EmptyDict, 0)>>]

\* configure_webhook up to its first await: the hostname check and the
\* set_webhook call.  getattr(settings, 'HOSTNAME') has no default: it
\* raises AttributeError when settings has no such attribute.
configure_webhook(hostname) ==
  IF hostname = Missing
    THEN [pc |-> "raised", err |-> "AttributeError", out |-> <<>>]
  ELSE IF ~TruthyStr(hostname.value)
    THEN [pc |-> "raised", err |-> "ImproperlyConfigured", out |-> <<>>]
  ELSE [pc |-> "set_webhook", err |-> "none",
        out |-> <<ApiCall("set_webhook", [url |-> hostname.value[1]], 0)>>]

\* configure up to the first await of the routine it selects
configure(m, hostname) ==
  LET configure_mode == getattr_configure(m) IN
  IF configure_mode = None
    THEN [pc |-> "raised", err |-> "ImproperlyConfigured", out |-> <<>>]
  ELSE IF configure_mode[1] = "configure_polling" THEN configure_polling
  ELSE configure_webhook(hostname)

Configure ==
  /\ cfg.pc = "init"
  /\ LET r == configure(mode, HOSTNAME) IN
       /\ cfg' = [pc |-> r.pc, err |-> r.err, logged |-> FALSE]
       /\ calls' = calls \o r.out
  /\ UNCHANGED <<api, translation, mode, HOSTNAME, tasks, started, routes, queue, nextId,
                 iterations, handlers, requests>>

\* a configuration that registers only when the remote acknowledged, and
\* fails otherwise
register_if_ok(ok) ==
  IF ok THEN [pc |-> "done", err |-> "none", logged |-> TRUE]
  ELSE [pc |-> "raised", err |-> "ImproperlyConfigured", logged |-> FALSE]

\* what configure_polling and configure_webhook do with the decoded
\* response: `if response['ok']` guards the debug log line and nothing else
register(ok) == [pc |-> "done", err |-> "none", logged |-> ok]

\* configure_polling after the delete_webhook response: the `ok` flag is
\* only logged; the polling loop is appended to self.tasks
ConfigurePollingRegister ==
  /\ cfg.pc = "delete_webhook"
  /\ \E ok \in BOOLEAN :
       /\ cfg' = register(ok)
       /\ tasks' = IF cfg'.pc = "done" THEN Append(tasks, "polling")
                   ELSE tasks
  /\ UNCHANGED <<api, translation, mode, HOSTNAME, started, routes, calls, queue, nextId,
                 iterations, handlers, requests>>

\* a webhook configuration that also registers the polling loop as a task
ConfigureWebhookRegisterAndPoll ==
  /\ cfg.pc = "set_webhook"
  /\ routes' = Append(routes, [method |-> "POST", path |-> "/",
                               handler |-> "webhook"])
  /\ tasks' = Append(tasks, "polling")
  /\ cfg' = [cfg EXCEPT !.pc = "done"]
  /\ UNCHANGED <<api, translation, mode, HOSTNAME, started, calls, queue, nextId,
                 iterations, handlers, requests>>

\* configure_webhook after the set_webhook response: the `ok` flag is only
\* logged; the webhook handler is added as the route POST /.  When the
\* router already holds a POST / route, add_post either adds a second one
\* or refuses with RuntimeError, depending on the router.
ConfigureWebhookRegister ==
  /\ cfg.pc = "set_webhook"
  /\ \E ok \in BOOLEAN :
       \/ /\ cfg' = register(ok)
          /\ routes' = IF cfg'.pc = "done"
                         THEN Append(routes, [method |-> "POST", path |-> "/",
                                              handler |-> "webhook"])
                         ELSE routes
       \/ /\ routes # <<>>
          /\ routes' = routes
          /\ cfg' = [pc |-> "raised", err |-> "RuntimeError", logged |-> ok]
  /\ UNCHANGED <<api, translation, mode, HOSTNAME, tasks, started, calls, queue, nextId,
                 iterations, handlers, requests>>

\* ------------------------------------------------------------------- polling
\* a polling coroutine called with last_update, not yet run.  Besides the
\* coroutine's locals the record keeps, for the properties, the position of
\* its get_updates call in `calls` (at), the kind of reply the call got
\* (reply) and the handler tasks that were still running when its gather
\* raised (left).
PollingTask(last_update) ==
  [pc |-> "scheduled", arg |-> last_update, last_update |-> last_update,
   payload |-> EmptyDict, result |-> <<>>, err |-> "none",
   reply |-> "none", at |-> 0, left |-> {}]

\* the payload of the get_updates call
polling_payload(last_update) ==
  IF TruthyInt(last_update) THEN [offset |-> last_update[1] + 1]
  ELSE EmptyDict

\* a cursor that an empty response resets
polling_cursor_reset(last_update, result) ==
  IF Len(result) # 0 THEN Some(Last(result)["update_id"]) ELSE None

\* the cursor after a response
polling_cursor(last_update, result) ==
  IF Len(result) # 0 THEN Some(Last(result)["update_id"]) ELSE last_update

\* a polling that reads the list with updates.get('result', []) throughout
polling_result_get(updates) ==
  IF "result" \in DOMAIN updates THEN Some(updates["result"]) ELSE Some(<<>>)

\* the list line 107 builds the handlers from: updates['result'], or None
\* when the decoded response has no such key and the lookup raises KeyError
polling_result(updates) ==
  IF "result" \in DOMAIN updates THEN Some(updates["result"]) ELSE None

\* a decoded response of the remote that reports a failure
NotOk == [ok |-> FALSE, error_code |-> 401, description |-> "Unauthorized"]

\* number of get_updates calls issued so far
NumPolls == Cardinality({i \in DOMAIN iterations : iterations[i].pc # "scheduled"})

\* indices of the handler tasks that asyncio.gather created for `owner` n
Batch(owner, n) ==
  {k \in DOMAIN handlers : handlers[k].owner = owner /\ handlers[k].n = n}

\* a gather that returns as soon as one handler task has returned
gather_returns_first(batch) ==
  batch = {} \/ \E k \in batch : handlers[k].pc = "returned"

\* the awaited gather returns: every handler task of the batch has returned
gather_returns(batch) == \A k \in batch : handlers[k].pc = "returned"

\* the awaited gather raises: some handler task of the batch has raised
gather_raises(batch) == \E k \in batch : handlers[k].pc = "raised"

\* a gather that cancels the tasks still running when it raises
gather_cancels(h) == [h EXCEPT !.pc = "cancelled"]

\* what the raising gather does to a task of the batch: nothing, the other
\* awaitables are not cancelled and keep running
gather_on_exception(h) == h

\* the task scheduler starts a registered task: polling() with no cursor
RunTask ==
  /\ cfg.pc = "done"
  /\ started < Len(tasks)
  /\ started' = started + 1
  /\ iterations' = Append(iterations, PollingTask(None))
  /\ UNCHANGED <<api, translation, mode, HOSTNAME, cfg, tasks, routes, calls, queue, nextId,
                 handlers, requests>>

\* the remote receives a new update, which waits for a get_updates call
UpdateArrives ==
  /\ mode = "polling"
  /\ nextId <= MaxUpdateId
  /\ \E u \in Updates(nextId) : queue' = Append(queue, u)
  /\ nextId' = nextId + 1
  /\ UNCHANGED <<api, translation, mode, HOSTNAME, cfg, tasks, started, routes, calls,
                 iterations, handlers, requests>>

\* the updates still pending at the remote once `payload` is received:
\* an offset confirms (drops) every update with a smaller identifier
Pending(q, payload) ==
  IF "offset" \in DOMAIN payload
    THEN SelectSeq(q, LAMBDA u : u["update_id"] >= payload["offset"])
    ELSE q

\* polling, lines 90-97: build the payload and call get_updates
PollingRequest(i) ==
  /\ iterations[i].pc = "scheduled"
  /\ NumPolls < MaxPolls
  /\ LET payload == polling_payload(iterations[i].last_update) IN
       /\ calls' = Append(calls, ApiCall("get_updates", payload, 0))
       /\ iterations' = [iterations EXCEPT ![i].pc = "get_updates",
                                            ![i].payload = payload,
                                            ![i].at = Len(calls) + 1]
  /\ UNCHANGED <<api, translation, mode, HOSTNAME, cfg, tasks, started, routes, queue, nextId,
                 handlers, requests>>

\* polling, lines 98-108: the response arrives, the cursor is set, and one
\* handler task per update is created by gather.  An empty gather is done
\* at once, so the next iteration is scheduled in the same step.
PollingResponse(i) ==
  /\ iterations[i].pc = "get_updates"
  /\ LET result == polling_result([ok |-> TRUE,
                     result |-> Pending(queue, iterations[i].payload)])[1]
         last_update == polling_cursor(iterations[i].last_update, result)
         it == [iterations[i] EXCEPT !.last_update = last_update,
                                     !.result = result,
                                     !.reply = "ok"]
     IN
       /\ queue' = result
       /\ handlers' = handlers \o
            [j \in 1..Len(result) |-> HandlerTask("polling", i, result[j])]
       /\ iterations' =
            IF result = <<>>
              THEN Append([iterations EXCEPT ![i] = [it EXCEPT !.pc = "finished"]],
                          PollingTask(last_update))
              ELSE [iterations EXCEPT ![i] = [it EXCEPT !.pc = "gather"]]
  /\ UNCHANGED <<api, translation, mode, HOSTNAME, cfg, tasks, started, routes, calls, nextId,
                 requests>>

\* polling, lines 97-107, when the get_updates call fails.  A network error
\* is raised by the await of line 97.  A decoded non-success response has
\* no result list: line 102 reads it as empty, the cursor is kept, and
\* updates['result'] of line 107 raises KeyError.  Either way the exception
\* propagates out of polling and line 109 is never reached.
PollingFailure(i) ==
  /\ iterations[i].pc = "get_updates"
  /\ \E reply \in {"network_error", "not_ok"} :
       LET result == IF reply = "network_error" THEN None
                     ELSE polling_result(NotOk)
           last_update ==
             IF reply = "network_error" THEN iterations[i].last_update
             ELSE polling_cursor(iterations[i].last_update, <<>>)
           it == [iterations[i] EXCEPT !.reply = reply,
                                       !.last_update = last_update]
       IN iterations' =
            IF result = None
              THEN [iterations EXCEPT
                      ![i] = [it EXCEPT !.pc = "raised",
                                        !.err = IF reply = "network_error"
                                                  THEN "ClientError"
                                                  ELSE "KeyError"]]
              ELSE Append([iterations EXCEPT ![i] = [it EXCEPT !.pc = "finished"]],
                          PollingTask(last_update))
  /\ UNCHANGED <<api, translation, mode, HOSTNAME, cfg, tasks, started, routes, calls, queue,
                 nextId, handlers, requests>>

\* a polling that ends after the gather without scheduling a successor
PollingEnd(i) ==
  /\ iterations[i].pc = "gather"
  /\ gather_returns(Batch("polling", i))
  /\ iterations' = [iterations EXCEPT ![i].pc = "finished"]
  /\ UNCHANGED <<api, translation, mode, HOSTNAME, cfg, tasks, started, routes,
                 calls, queue, nextId, handlers, requests>>

\* polling, line 109: gather returned, ensure_future(self.polling(last_update))
PollingReschedule(i) ==
  /\ iterations[i].pc = "gather"
  /\ gather_returns(Batch("polling", i))
  /\ iterations' = Append([iterations EXCEPT ![i].pc = "finished"],
                          PollingTask(iterations[i].last_update))
  /\ UNCHANGED <<api, translation, mode, HOSTNAME, cfg, tasks, started, routes, calls, queue,
                 nextId, handlers, requests>>

\* polling, line 108: gather raised the first exception of a handler; it
\* propagates out of polling and line 109 is never reached
PollingRaise(i) ==
  /\ iterations[i].pc = "gather"
  /\ gather_raises(Batch("polling", i))
  /\ \E k \in Batch("polling", i) :
       /\ handlers[k].pc = "raised"
       /\ iterations' =
            [iterations EXCEPT
               ![i].pc = "raised",
               ![i].err = handlers[k].err,
               ![i].left = {j \in Batch("polling", i) : ~Finished(handlers[j])}]
  /\ handlers' = [k \in DOMAIN handlers |->
                    IF k \in Batch("polling", i) /\ ~Finished(handlers[k])
                      THEN gather_on_exception(handlers[k])
                      ELSE handlers[k]]
  /\ UNCHANGED <<api, translation, mode, HOSTNAME, cfg, tasks, started, routes, calls, queue,
                 nextId, requests>>

\* ----------------------------------------------------------- handler tasks
\* message_handler, lines 158-164: translate, log, resolve
HandlerStart(k) ==
  /\ handlers[k].pc = "pending"
  /\ LET r == message_handler(handlers[k].data) IN
       handlers' = [handlers EXCEPT ![k].pc = r.pc, ![k].err = r.err]
  /\ UNCHANGED <<api, translation, mode, HOSTNAME, cfg, tasks, started, routes, calls, queue,
                 nextId, iterations, requests>>

\* message_handler, lines 167-171: the view answered, send_message is called
HandlerSend(k) ==
  /\ handlers[k].pc = "get_response"
  /\ calls' = Append(calls, send_message(handlers[k].data, k))
  /\ handlers' = [handlers EXCEPT ![k].pc = "send_message"]
  /\ UNCHANGED <<api, translation, mode, HOSTNAME, cfg, tasks, started, routes, queue, nextId,
                 iterations, requests>>

\* message_handler, line 172: the send_message response arrives (unchecked)
HandlerReturn(k) ==
  /\ handlers[k].pc = "send_message"
  /\ handlers' = [handlers EXCEPT ![k].pc = "returned"]
  /\ UNCHANGED <<api, translation, mode, HOSTNAME, cfg, tasks, started, routes, calls, queue,
                 nextId, iterations, requests>>

\* ------------------------------------------------------------------- webhook
\* webhook, lines 124-125: a POST / request carrying one update arrives,
\* its body is decoded and gather creates the handler task
WebhookRequest ==
  /\ \E r \in DOMAIN routes : routes[r].handler = "webhook"
  /\ Len(requests) < MaxRequests
  /\ \E u \in Updates(nextId) :
       /\ requests' = Append(requests, [data |-> u, pc |-> "gather",
                                        response |-> None, err |-> "none"])
       /\ handlers' = Append(handlers,
                             HandlerTask("webhook", Len(requests) + 1, u))
  /\ nextId' = nextId + 1
  /\ UNCHANGED <<api, translation, mode, HOSTNAME, cfg, tasks, started, routes, calls, queue,
                 iterations>>

\* web.Response(): status 200, no body
web_Response == [status |-> 200, body |-> ""]

\* webhook, line 126: gather returned, the empty response is returned
WebhookRespond(r) ==
  /\ requests[r].pc = "gather"
  /\ gather_returns(Batch("webhook", r))
  /\ requests' = [requests EXCEPT ![r].pc = "responded",
                                  ![r].response = Some(web_Response)]
  /\ UNCHANGED <<api, translation, mode, HOSTNAME, cfg, tasks, started, routes, calls, queue,
                 nextId, iterations, handlers>>

\* webhook, line 125: gather raised the handler's exception; it propagates
\* out of webhook and no web.Response is returned
WebhookRaise(r) ==
  /\ requests[r].pc = "gather"
  /\ gather_raises(Batch("webhook", r))
  /\ \E k \in Batch("webhook", r) :
       /\ handlers[k].pc = "raised"
       /\ requests' = [requests EXCEPT ![r].pc = "raised",
                                      ![r].err = handlers[k].err]
  /\ UNCHANGED <<api, translation, mode, HOSTNAME, cfg, tasks, started, routes, calls, queue,
                 nextId, iterations, handlers>>

\* ---------------------------------------------------------------------- Next
Next ==
  \/ Configure
  \/ ConfigurePollingRegister
  \/ ConfigureWebhookRegister
  \/ RunTask
  \/ UpdateArrives
  \/ \E i \in DOMAIN iterations : PollingRequest(i)
  \/ \E i \in DOMAIN iterations : PollingResponse(i)
  \/ \E i \in DOMAIN iterations : PollingFailure(i)
  \/ \E i \in DOMAIN iterations : PollingReschedule(i)
  \/ \E i \in DOMAIN iterations : PollingRaise(i)
  \/ \E k \in DOMAIN handlers : HandlerStart(k)
  \/ \E k \in DOMAIN handlers : HandlerSend(k)
  \/ \E k \in DOMAIN handlers : HandlerReturn(k)
  \/ WebhookRequest
  \/ \E r \in DOMAIN requests : WebhookRespond(r)
  \/ \E r \in DOMAIN requests : WebhookRaise(r)

Spec == Init /\ [][Next]_vars

\* ------------------------------------------- the polling loop, undisturbed
\* an update arrives that translates to a message, so that its handler
\* completes
MessageArrives ==
  /\ UpdateArrives
  /\ build_message(Last(queue')).kind = "Message"

LiveInit == Init /\ mode = "polling" /\ HOSTNAME = Missing

LiveNext ==
  \/ Configure
  \/ ConfigurePollingRegister
  \/ RunTask
  \/ MessageArrives
  \/ \E i \in DOMAIN iterations : PollingRequest(i)
  \/ \E i \in DOMAIN iterations : PollingResponse(i)
  \/ \E i \in DOMAIN iterations : PollingReschedule(i)
  \/ \E k \in DOMAIN handlers : HandlerStart(k)
  \/ \E k \in DOMAIN handlers : HandlerSend(k)
  \/ \E k \in DOMAIN handlers : HandlerReturn(k)

\* the event loop runs every ready coroutine, and every remote call returns;
\* the arrival of updates is not forced
LiveFairness ==
  /\ WF_vars(Configure)
  /\ WF_vars(ConfigurePollingRegister)
  /\ WF_vars(RunTask)
  /\ WF_vars(\E i \in DOMAIN iterations : PollingRequest(i))
  /\ WF_vars(\E i \in DOMAIN iterations : PollingResponse(i))
  /\ WF_vars(\E i \in DOMAIN iterations : PollingReschedule(i))
  /\ WF_vars(\E k \in DOMAIN handlers : HandlerStart(k))
  /\ WF_vars(\E k \in DOMAIN handlers : HandlerSend(k))
  /\ WF_vars(\E k \in DOMAIN handlers : HandlerReturn(k))

LiveSpec == LiveInit /\ [][LiveNext]_vars /\ LiveFairness

\* ------------------------------------- the webhook configuration, repeated
\* the set_webhook calls made so far, in order
SetWebhookCalls == SelectSeq(calls, LAMBDA c : c.op = "set_webhook")

\* the configuration step is run again after it has completed
Reconfigure ==
  /\ cfg.pc = "done"
  /\ Len(SetWebhookCalls) < MaxConfigures
  /\ cfg' = [pc |-> "init", err |-> "none", logged |-> FALSE]
  /\ UNCHANGED <<api, translation, mode, HOSTNAME, tasks, started, routes,
                 calls, queue, nextId, iterations, handlers, requests>>

ReconfInit == Init /\ mode = "webhook"

ReconfNext ==
  \/ Configure
  \/ ConfigureWebhookRegister
  \/ Reconfigure
  \/ \E k \in DOMAIN handlers : HandlerStart(k)
  \/ \E k \in DOMAIN handlers : HandlerSend(k)
  \/ \E k \in DOMAIN handlers : HandlerReturn(k)
  \/ WebhookRequest
  \/ \E r \in DOMAIN requests : WebhookRespond(r)
  \/ \E r \in DOMAIN requests : WebhookRaise(r)

ReconfSpec == ReconfInit /\ [][ReconfNext]_vars

\* ------------------------------------------------------ translation alone
\* a sender carrying every key of a Telegram user
FullSender == [id |-> 43, first_name |-> "B", last_name |-> "L",
               username |-> "b", language_code |-> "en"]

\* senders with the two required keys and any of the optional ones
Senders ==
  {[k \in {"id", "first_name"} \cup opt |-> FullSender[k]] :
     opt \in SUBSET {"last_name", "username", "language_code"}}

\* raw updates: text messages, messages without a text (a photo), and
\* updates of another kind
RawUpdates ==
  UNION {
    {[update_id |-> i,
      message |-> [message_id |-> 100 + i, text |-> t, date |-> 1000 + i,
                   from |-> sender]] :
        t \in {"hi", "ping"}, sender \in Senders}
    \cup {[update_id |-> i,
           message |-> [message_id |-> 100 + i, date |-> 1000 + i,
                        from |-> sender, photo |-> "file"]] :
        sender \in Senders}
    \cup {[update_id |-> i,
           edited_message |-> [message_id |-> 100 + i, text |-> "hi",
                               date |-> 1000 + i, from |-> FullSender]],
          [update_id |-> i,
           callback_query |-> [id |-> 7, from |-> FullSender]]}
    : i \in 0..MaxUpdateId}

\* build_message applied to the raw update drawn initially
Translate ==
  /\ translation.pc = "input"
  /\ translation' = [pc |-> "done", data |-> translation.data,
                     message |-> build_message(translation.data)]
  /\ UNCHANGED <<api, mode, HOSTNAME, cfg, tasks, started, routes, calls,
                 queue, nextId, iterations, handlers, requests>>

TranslateInit ==
  /\ mode = "polling"
  /\ HOSTNAME = Missing
  /\ cfg = [pc |-> "init", err |-> "none", logged |-> FALSE]
  /\ tasks = <<>>
  /\ started = 0
  /\ routes = <<>>
  /\ calls = <<>>
  /\ queue = <<>>
  /\ nextId = 1
  /\ iterations = <<>>
  /\ handlers = <<>>
  /\ requests = <<>>
  /\ api = TelegramAPI(CHOOSE t \in Tokens : TRUE)
  /\ \E data \in RawUpdates : translation = [pc |-> "input", data |-> data]

TranslateNext == Translate

TranslateSpec == TranslateInit /\ [][TranslateNext]_vars

\* ---------------------------------------------------- the API proxy alone
\* a proxy built with any token, before the engine does anything
ApiInit ==
  /\ mode = "polling"
  /\ HOSTNAME = Missing
  /\ cfg = [pc |-> "init", err |-> "none", logged |-> FALSE]
  /\ tasks = <<>>
  /\ started = 0
  /\ routes = <<>>
  /\ calls = <<>>
  /\ queue = <<>>
  /\ nextId = 1
  /\ iterations = <<>>
  /\ handlers = <<>>
  /\ requests = <<>>
  /\ \E t \in Tokens : api = TelegramAPI(t)
  /\ translation = [pc |-> "idle"]

ApiNext == ApiInvoke

ApiSpec == ApiInit /\ [][ApiNext]_vars

\* ------------------------------------------------------------------ properties
\* the get_updates call of iteration i has been issued
Issued(i) == iterations[i].pc # "scheduled"

PollingHandlers == {k \in DOMAIN handlers : handlers[k].owner = "polling"}

\* the calls issued by handler task k, as positions in `calls`
CallsBy(k) == {p \in DOMAIN calls : calls[p].by = k}

\* C1: the first get_updates call sends no offset; when call N returned at
\* least one update, call N+1 sends offset = (identifier of the last update
\* of call N) + 1; when call N returned no update, call N+1 sends the same
\* payload as call N.
C1_OffsetFollowsLastUpdate ==
  /\ \A i \in DOMAIN iterations :
       (i = 1 /\ Issued(i)) => iterations[i].payload = EmptyDict
  /\ \A n \in DOMAIN iterations :
       (n + 1 \in DOMAIN iterations /\ Issued(n + 1)) =>
          IF iterations[n].result # <<>>
            THEN iterations[n + 1].payload =
                   [offset |-> Last(iterations[n].result)["update_id"] + 1]
            ELSE iterations[n + 1].payload = iterations[n].payload

\* C2: with a remote that answers an offset with the updates at or beyond it
\* (and with every pending update when no offset is sent), no update
\* identifier is handed to message_handler more than once by the polling
\* loop.
C2_NoUpdateHandledTwice ==
  \A j, k \in PollingHandlers :
    j # k => handlers[j].data["update_id"] # handlers[k].data["update_id"]

\* C3: at most one get_updates call is outstanding, and once the
\* get_updates call of a later iteration is issued every handler of an
\* earlier batch has finished and each send_message of that batch precedes
\* the call.
C3_BatchBarrier ==
  /\ Cardinality({i \in DOMAIN iterations : iterations[i].pc = "get_updates"}) <= 1
  /\ \A k \in PollingHandlers : \A i \in DOMAIN iterations :
       (i > handlers[k].n /\ Issued(i)) =>
          /\ Finished(handlers[k])
          /\ \A p \in CallsBy(k) : p < iterations[i].at

\* C3 witness: a batch of two handlers that both sent a message, the later
\* handler first, and the next get_updates call issued after both.
C3_Witness ==
  \E i \in DOMAIN iterations : \E j, k \in Batch("polling", i) :
    /\ j < k
    /\ i + 1 \in DOMAIN iterations /\ Issued(i + 1)
    /\ \E p \in CallsBy(j) : \E q \in CallsBy(k) :
         q < p /\ p < iterations[i + 1].at

\* C4: a failure raised inside a handler of a polled batch does not abort
\* the polling loop: an iteration whose get_updates call returned its
\* updates never ends with the exception of one of its handlers.  (An
\* iteration whose get_updates call itself failed is not concerned.)
C4_HandlerFailureDoesNotAbortPolling ==
  \A i \in DOMAIN iterations :
    (/\ iterations[i].reply = "ok"
     /\ \E k \in Batch("polling", i) : handlers[k].pc = "raised") =>
      iterations[i].pc # "raised"

\* the state message_handler ends in when nothing interferes with it
OwnOutcome(data) ==
  IF message_handler(data).pc = "get_response" THEN "returned"
  ELSE message_handler(data).pc

\* C5: a failure of one handler of a batch leaves its siblings alone: once
\* gather has raised, a handler of that batch that has not finished can
\* still take its next step, and one that has finished ended the way its
\* own update decides, having issued its send_message when a view matched.
C5_SiblingsRunToCompletion ==
  \A i \in DOMAIN iterations : \A k \in Batch("polling", i) :
    iterations[i].pc = "raised" =>
      IF Finished(handlers[k])
        THEN /\ handlers[k].pc = OwnOutcome(handlers[k].data)
             /\ (message_handler(handlers[k].data).pc = "get_response") =>
                   \E p \in CallsBy(k) :
                      calls[p] = send_message(handlers[k].data, k)
        ELSE ENABLED (HandlerStart(k) \/ HandlerSend(k) \/ HandlerReturn(k))

\* C5 witness: gather raised while a sibling was still running, and that
\* sibling has since returned after issuing its send_message.
C5_Witness ==
  \E i \in DOMAIN iterations : \E k \in iterations[i].left :
    /\ iterations[i].pc = "raised"
    /\ handlers[k].pc = "returned"
    /\ CallsBy(k) # {}

\* C6: an update without a "message" key is skipped silently: its handler
\* never raises and issues no outbound call.
C6_NoMessageSkippedSilently ==
  \A k \in DOMAIN handlers :
    "message" \notin DOMAIN handlers[k].data =>
       handlers[k].pc # "raised" /\ CallsBy(k) = {}

\* C7: for a translated message the handler issues exactly one outbound
\* call, a send_message whose chat_id is the sending user's id, when the
\* resolver returns a view (none before the view has answered), and issues
\* no call and raises no error when the resolver returns none.
C7_OneSendPerResolvedMessage ==
  \A k \in DOMAIN handlers :
    LET message == build_message(handlers[k].data)
        h == handlers[k]
    IN message.kind = "Message" =>
         IF discover_view(message) # None
           THEN /\ h.pc \in {"pending", "get_response", "send_message", "returned"}
                /\ h.pc \in {"pending", "get_response"} => CallsBy(k) = {}
                /\ h.pc \in {"send_message", "returned"} =>
                     /\ Cardinality(CallsBy(k)) = 1
                     /\ \A p \in CallsBy(k) :
                          /\ calls[p].op = "send_message"
                          /\ calls[p].json["chat_id"] =
                               h.data["message"]["from"]["id"]
           ELSE /\ h.pc \in {"pending", "returned"}
                /\ CallsBy(k) = {}

\* C7 witness: one handler returned after its single send_message, and
\* another returned for a message no view matches.
C7_Witness ==
  \E j, k \in DOMAIN handlers :
    /\ handlers[j].pc = "returned" /\ Cardinality(CallsBy(j)) = 1
    /\ handlers[k].pc = "returned" /\ CallsBy(k) = {}
    /\ build_message(handlers[k].data).kind = "Message"

\* C8: every webhook request that has been handled got the empty success
\* response, whether or not its update carried a message and whether or not
\* a view matched (updates whose message lacks a required key set aside).
C8_WebhookAlwaysResponds ==
  \A r \in DOMAIN requests :
    (requests[r].pc # "gather" /\ build_message(requests[r].data).kind # "KeyError")
       => requests[r].response = Some(web_Response)

\* C9: when the mode names no configuration routine, configure fails with
\* ImproperlyConfigured and nothing is configured: no remote call, no
\* polling task, no route.
C9_UnknownModeConfiguresNothing ==
  mode \notin {"polling", "webhook"} =>
    /\ cfg.pc \in {"init", "raised"}
    /\ cfg.pc = "raised" => cfg.err = "ImproperlyConfigured"
    /\ calls = <<>> /\ tasks = <<>> /\ routes = <<>> /\ iterations = <<>>

\* C9 witness: configure has run with an unknown mode and has failed.
C9_Witness ==
  mode \notin {"polling", "webhook"} /\ cfg.pc = "raised"

\* the hostname is absent: not configured, None or empty
HostnameAbsent == HOSTNAME = Missing \/ ~TruthyStr(HOSTNAME.value)

\* C10: in webhook mode with the hostname absent, configure fails with
\* ImproperlyConfigured before any set_webhook call and before any route
\* is registered.
C10_MissingHostnameIsImproperlyConfigured ==
  (mode = "webhook" /\ HostnameAbsent) =>
    /\ cfg.pc \in {"init", "raised"}
    /\ cfg.pc = "raised" => cfg.err = "ImproperlyConfigured"
    /\ calls = <<>> /\ routes = <<>>

\* C11: a get_updates call that fails (a network error, or a decoded
\* non-success response without a result list) ends its polling iteration
\* with the exception: no handler is created for it, the cursor is the one
\* it was called with, and it has no successor, so no further get_updates
\* call is issued.
C11_GetUpdatesFailureEndsPolling ==
  \A i \in DOMAIN iterations :
    iterations[i].reply \in {"network_error", "not_ok"} =>
      /\ iterations[i].pc = "raised"
      /\ iterations[i].err \in {"ClientError", "KeyError"}
      /\ Batch("polling", i) = {}
      /\ iterations[i].last_update = iterations[i].arg
      /\ i = Len(iterations)
      /\ \A p \in DOMAIN calls :
           calls[p].op = "get_updates" => p <= iterations[i].at

\* C11 witness: a non-success response ended an iteration that was called
\* with a cursor, after an earlier batch had been handled.
C11_Witness ==
  \E i \in DOMAIN iterations :
    /\ iterations[i].reply = "not_ok"
    /\ iterations[i].pc = "raised"
    /\ iterations[i].arg # None
    /\ \E k \in PollingHandlers : handlers[k].pc = "returned"

\* a step of a handler task or of the webhook request handler
HandlerOrWebhookStep ==
  \/ \E k \in DOMAIN handlers : HandlerStart(k) \/ HandlerSend(k) \/ HandlerReturn(k)
  \/ WebhookRequest
  \/ \E r \in DOMAIN requests : WebhookRespond(r) \/ WebhookRaise(r)

\* C12: the mode never changes and is acted on once; the polling task and
\* the webhook route are never both registered; in webhook mode there is no
\* polling iteration and no get_updates call; and no step of a handler or of
\* the webhook changes a polling iteration (its cursor included).
C12_ModeExclusive ==
  /\ [](~(tasks # <<>> /\ routes # <<>>))
  /\ [](Len(tasks) + Len(routes) <= 1)
  /\ [](mode = "webhook" =>
          /\ iterations = <<>>
          /\ \A p \in DOMAIN calls : calls[p].op # "get_updates")
  /\ [](mode = "polling" => requests = <<>>)
  /\ [][mode' = mode]_vars
  /\ [][cfg.pc \in {"done", "raised"} => cfg' = cfg]_vars
  /\ [][HandlerOrWebhookStep => iterations' = iterations]_vars

\* C12 witness: in webhook mode a request has been answered after its
\* handler sent a reply, with no polling task registered.
C12_Witness ==
  /\ mode = "webhook" /\ routes # <<>> /\ tasks = <<>>
  /\ \E r \in DOMAIN requests :
       /\ requests[r].pc = "responded"
       /\ \E k \in Batch("webhook", r) : CallsBy(k) # {}

\* C13: an operation whose name is outside the fixed set fails with an
\* error and makes no POST; one inside the set makes exactly one POST, with
\* the keyword arguments as its JSON body.
C13_OnlyListedOperationsPost ==
  LET listed == {j \in DOMAIN api.log : api.log[j].attr \in
                   {"delete_webhook", "send_message", "set_webhook", "get_updates"}}
  IN /\ \A j \in DOMAIN api.log \ listed :
          api.log[j].outcome = "AttributeError" /\ api.log[j].post = 0
     /\ \A j \in listed :
          /\ api.log[j].outcome = "posted"
          /\ api.log[j].post \in DOMAIN api.posts
          /\ api.posts[api.log[j].post].json = api.log[j].kwargs
          /\ \A h \in listed : h # j => api.log[h].post # api.log[j].post
     /\ Len(api.posts) = Cardinality(listed)

\* C13 witness: an unlisted name was refused after a listed one had posted.
C13_Witness ==
  \E h, j \in DOMAIN api.log :
    /\ h < j
    /\ api.log[h].outcome = "posted" /\ api.log[h].kwargs # EmptyDict
    /\ api.log[j].outcome = "AttributeError"
    /\ Len(api.posts) = 1

\* the operation names as the remote API spells them
RemoteName ==
  [delete_webhook |-> <<"d", "e", "l", "e", "t", "e", "W", "e", "b", "h", "o", "o", "k">>,
   send_message |-> <<"s", "e", "n", "d", "M", "e", "s", "s", "a", "g", "e">>,
   set_webhook |-> <<"s", "e", "t", "W", "e", "b", "h", "o", "o", "k">>,
   get_updates |-> <<"g", "e", "t", "U", "p", "d", "a", "t", "e", "s">>]

\* C16: every POST made for a listed operation goes to
\* base_url + "/bot" + token + "/" + the name with its first segment in
\* lower case and its other segments title-cased and concatenated
\* (get_updates -> getUpdates, delete_webhook -> deleteWebhook).
C16_UrlOfListedOperation ==
  \A j \in DOMAIN api.log :
    api.log[j].attr \in DOMAIN RemoteName =>
      /\ api.log[j].post \in DOMAIN api.posts
      /\ api.posts[api.log[j].post].url =
           api_url \o <<"/", "b", "o", "t">> \o api.token \o <<"/">>
             \o RemoteName[api.log[j].attr]

\* C16 witness: get_updates and delete_webhook have both been posted.
C16_Witness ==
  \E h, j \in DOMAIN api.log :
    /\ api.log[h].attr = "get_updates" /\ api.log[h].outcome = "posted"
    /\ api.log[j].attr = "delete_webhook" /\ api.log[j].outcome = "posted"

\* C14: once the webhook configuration step has run twice with the same
\* hostname, both runs made the same set_webhook call and the second left
\* the engine as the first did: configured, with the one POST / route.
C14_WebhookConfigurationIdempotent ==
  (Len(SetWebhookCalls) = 2 /\ cfg.pc \in {"done", "raised"}) =>
    /\ SetWebhookCalls[1] = SetWebhookCalls[2]
    /\ cfg.pc = "done"
    /\ routes = <<[method |-> "POST", path |-> "/", handler |-> "webhook"]>>

\* C15: build_message gives "no message" for every raw update without a
\* "message" key, and for every update with one a canonical message whose
\* id, text, timestamp, user fields, platform and raw payload are those of
\* the update.
C15_TranslationMatchesPayload ==
  translation.pc = "done" =>
    LET data == translation.data
        msg == translation.message IN
    IF "message" \notin DOMAIN data THEN msg.kind = "None"
    ELSE LET m == data["message"] IN
      /\ msg.kind = "Message"
      /\ msg.id = m["message_id"]
      /\ msg.text = m["text"]
      /\ msg.timestamp = m["date"]
      /\ msg.user.id = m["from"]["id"]
      /\ msg.user.first_name = m["from"]["first_name"]
      /\ msg.user.last_name = DictGet(m["from"], "last_name")
      /\ msg.user.username = DictGet(m["from"], "username")
      /\ msg.user.language = DictGet(m["from"], "language_code")
      /\ msg.platform = "telegram"
      /\ msg.raw = data

\* cursor a is not larger than cursor b; no cursor yet (None) is the least
CursorLeq(a, b) == a = None \/ (b # None /\ a[1] <= b[1])

\* C17: the polling cursor never decreases: the cursor an iteration holds is
\* never smaller than the one it was started with, and the cursor passed to
\* the next iteration is never smaller than the one passed to this one.
C17_CursorNonDecreasing ==
  \A n \in DOMAIN iterations :
    /\ CursorLeq(iterations[n].arg, iterations[n].last_update)
    /\ n + 1 \in DOMAIN iterations =>
         /\ CursorLeq(iterations[n].arg, iterations[n + 1].arg)
         /\ iterations[n + 1].arg = iterations[n].last_update

\* an iteration that held a cursor received an empty response and passed the
\* same cursor on
C17_Witness ==
  \E n \in DOMAIN iterations :
    /\ n + 1 \in DOMAIN iterations
    /\ iterations[n].arg # None
    /\ iterations[n].reply = "ok"
    /\ iterations[n].result = <<>>
    /\ iterations[n + 1].arg = iterations[n].arg

\* the positions of the calls of operation op in the call log
CallsOf(op) == {j \in DOMAIN calls : calls[j].op = op}

\* C19: in polling mode configure issues exactly one delete_webhook call;
\* while its response is awaited no task is registered and no iteration
\* exists; the polling loop is registered once, when the response is in; and
\* every get_updates call comes after the delete_webhook call has completed.
C19_DeleteWebhookBeforePolling ==
  mode = "polling" =>
    /\ Cardinality(CallsOf("delete_webhook")) =
         (IF cfg.pc \in {"delete_webhook", "done"} THEN 1 ELSE 0)
    /\ cfg.pc = "delete_webhook" => tasks = <<>> /\ iterations = <<>>
    /\ cfg.pc = "done" => tasks = <<"polling">>
    /\ tasks # <<>> => cfg.pc = "done"
    /\ started <= 1
    /\ \A j \in CallsOf("get_updates") :
         /\ cfg.pc = "done"
         /\ \E i \in CallsOf("delete_webhook") : i < j

\* the polling loop, registered after delete_webhook, has called get_updates
C19_Witness ==
  /\ mode = "polling"
  /\ tasks = <<"polling">>
  /\ calls[1].op = "delete_webhook"
  /\ CallsOf("get_updates") # {}

\* C20: once the response to delete_webhook or set_webhook is in, whether
\* it carried ok = true (logged) or ok = false (not logged), configuration
\* has completed without error and the polling task, respectively the
\* POST / route, is registered, and nothing else is.
C20_AckOnlyAffectsLogging ==
  (/\ cfg.pc \in {"done", "raised"}
   /\ CallsOf("delete_webhook") \cup CallsOf("set_webhook") # {}) =>
    /\ cfg.pc = "done"
    /\ cfg.err = "none"
    /\ mode = "polling" => tasks = <<"polling">> /\ routes = <<>>
    /\ mode = "webhook" =>
         /\ routes = <<[method |-> "POST", path |-> "/",
                        handler |-> "webhook"]>>
         /\ tasks = <<>>

\* delete_webhook was answered with ok = false, nothing was logged, and the
\* polling loop was registered and has called get_updates
C20_Witness ==
  /\ mode = "polling"
  /\ cfg.pc = "done"
  /\ ~cfg.logged
  /\ tasks = <<"polling">>
  /\ CallsOf("get_updates") # {}

\* C18: when every get_updates call returns and every handler completes,
\* the polling loop does not end: no iteration raises, every finished
\* iteration has its successor and at most one iteration is unfinished,
\* and as long as fewer than MaxPolls get_updates calls were issued a
\* further one is eventually issued.
C18_PollingLoopGoesOn ==
  /\ [](\A i \in DOMAIN iterations :
          /\ iterations[i].pc # "raised"
          /\ iterations[i].pc = "finished" <=> i < Len(iterations))
  /\ \A n \in 0..(MaxPolls - 1) : (NumPolls = n) ~> (NumPolls > n)

\* two iterations have finished after their handlers returned, one of them
\* after a send_message call, and a third get_updates call was issued
C18_Witness ==
  /\ NumPolls >= 3
  /\ iterations[1].pc = "finished"
  /\ iterations[2].pc = "finished"
  /\ \E k \in Batch("polling", 1) :
       handlers[k].pc = "returned" /\ CallsBy(k) # {}

====
